---- MODULE Spec2Model ----
(***************************************************************************)
(* A model of the photo booth's generation pipeline.                       *)
(*                                                                         *)
(*   src/src/lib/llm.js      the Generation Client: generateImageFn (retry *)
(*                           with backoff, timeout race, cancellation),    *)
(*                           generateVideoFn (job + polling), and the two  *)
(*                           p-limit limiters that wrap them               *)
(*   src/src/lib/actions.js  the action layer: snapPhoto, deletePhoto,     *)
(*                           setMode, setCustomPrompt, makeGif, hideGif    *)
(*                           over the store and the imageData side tables  *)
(*                                                                         *)
(* JavaScript is single threaded: one action of the model is one task of   *)
(* the event loop together with the microtasks (promise continuations) it  *)
(* triggers.  A step that ends at an `await` of a network call or a timer  *)
(* leaves the request in the state that names what it is waiting for.      *)
(***************************************************************************)
EXTENDS Integers, Sequences, FiniteSets, TLC

\* ---------------------------------------------------------------- bounds
\* number of snapPhoto calls explored in the application (Spec)
MaxPhotos == 2
\* number of direct generateImage / generateVideo calls that carry a signal
\* (ClientSpec)
MaxRequests == 2
\* number of direct generateImage / generateVideo calls without a signal
\* (LimiterSpec)
MaxSubmissions == 3
\* number of service calls abandoned by the timeout that may be outstanding
MaxAbandoned == 1
\* number of makeGif calls explored (GifSpec)
MaxBuilds == 2
\* number of snapPhoto calls explored under fairness (LiveSpec): one more
\* than the image limiter admits at once
MaxCaptures == 3

\* ----------------------------------------------------- program constants
\* llm.js:9-10
maxRetries == 5
baseDelay == 1233

Max(a, b) == IF a > b THEN a ELSE b
MaxIds == Max(Max(MaxPhotos, MaxCaptures), Max(MaxRequests, MaxSubmissions))
Ids == 1..MaxIds
\* an id that crypto.randomUUID never returned
GhostId == MaxIds + 1

Kinds == {"image", "video"}

\* what a caller may pass as `signal`: nothing, an AbortSignal not yet
\* aborted, or one that is already aborted
Signals == {"none", "clear", "aborted"}

\* data URIs handed to snapPhoto / inputFile
Imgs == {"img1"}
Prompts == {"", "turn into a painting"}
\* the prompt of a direct caller
ClientPrompts == {"turn into a painting"}

\* `undefined`
Undefined == <<>>
\* `null`
Null == <<"null">>

VARIABLES
  req,          \* id -> the generation request made for it (llm.js)
  limiter,      \* kind -> [activeCount, queue] of imageLimiter / videoLimiter
  abandoned,    \* generateContent calls abandoned by the timeout, not yet completed
  nextId,       \* the next fresh id (crypto.randomUUID) / call number
  photos,       \* store.photos: sequence of [id, mode, isBusy, isVideo]
  inputs,       \* imageData.inputs
  outputs,      \* imageData.outputs
  activeMode,   \* store.activeMode
  customPrompt, \* store.customPrompt
  snap,         \* id -> the snapPhoto invocation for it (its locals and position)
  downloads,    \* the downloads triggered so far (downloadFile calls)
  gifInProgress, \* store.gifInProgress
  gifUrl,       \* store.gifUrl
  gif           \* the latest makeGif invocation (its locals and position)

gifVars == <<gifInProgress, gifUrl, gif>>

vars == <<req, limiter, abandoned, nextId, photos, inputs, outputs,
          activeMode, customPrompt, snap, downloads, gifInProgress, gifUrl, gif>>

\* ------------------------------------------------------------- helpers
Put(t, k, v) == [x \in (DOMAIN t) \cup {k} |-> IF x = k THEN v ELSE t[x]]
Del(t, k) == [x \in (DOMAIN t) \ {k} |-> t[x]]

RECURSIVE Pow2(_)
Pow2(n) == IF n = 0 THEN 1 ELSE 2 * Pow2(n - 1)

\* -------------------------------------------------- requests (llm.js)
NoReq ==
  [kind |-> "none", st |-> "none", attempt |-> 0, calls |-> 0, failures |-> 0,
   delays |-> <<>>, signal |-> "none", prompt |-> "", inputFile |-> "",
   resp |-> <<>>, result |-> Undefined, err |-> <<>>]

\* An error object: its name, its message, and the attempt (0-based) whose
\* try block raised it; the last component is the identity of the object.
\* A request's `err` is the error that ended it: thrown to the caller when
\* it rejected, swallowed when it was cancelled.
Err(name, message, attempt) == <<name, message, attempt>>

Settled(q) == q.st \in {"resolved", "rejected"}
Started(q) == q.st \notin {"none", "queued"}
InFlightSt == {"call", "backoff", "submit", "wait", "poll", "fetch", "blob"}

\* no limit at all
ConcurrencyUnlimited(k) == MaxIds

\* the two limits exchanged
ConcurrencySwapped(k) == IF k = "image" THEN 1 ELSE 2

\* pLimit(2) for images, pLimit(1) for videos
Concurrency(k) == IF k = "image" THEN 2 ELSE 1

\* ---- the service's answers to generateContent
\* A response is its `candidates`: a sequence of candidates, each the
\* sequence of its content parts; a part is <<"text", t>> or
\* <<"inlineData", data>>.
TextPart == <<"text", "t">>
InlinePart(d) == <<"inlineData", d>>
Responses ==
  { <<>>,                                                      \* no candidates
    << <<TextPart>> >>,                                        \* text only
    << <<TextPart, InlinePart("d1"), InlinePart("d2")>> >>     \* text, two images
  }
\* the names of the errors a service call can reject with
ErrorNames == {"Error", "AbortError"}

\* response.candidates[0].content.parts.find(p => p.inlineData)
FindInline(parts) ==
  LET idx == {i \in 1..Len(parts) : parts[i][1] = "inlineData"}
  IN  IF idx = {} THEN Undefined
      ELSE parts[CHOOSE i \in idx : \A j \in idx : i <= j]

\* 'data:image/png;base64,' + inlineDataPart.inlineData.data
PngDataUri(part) == <<"data:image/png;base64,", part[2]>>

\* ---- generateImageFn, llm.js:20-79
\* the start of one iteration of the for loop: the timer is armed and
\* generateContent is called
StartAttempt(q, n) ==
  [q EXCEPT !.st = "call", !.attempt = n, !.calls = @ + 1]

\* the signal is not looked at
IsCancelledByNameOnly(q, e) == e[1] = "AbortError"

\* signal?.aborted || error.name === 'AbortError'
IsCancelled(q, e) == q.signal = "aborted" \/ e[1] = "AbortError"

\* the comparison is off by one
IsLastAttemptLate(attempt) == attempt = maxRetries

\* attempt === maxRetries - 1
IsLastAttempt(attempt) == attempt = maxRetries - 1

\* a linear instead of an exponential backoff
BackoffDelayLinear(attempt) == baseDelay * (attempt + 1)

\* baseDelay * 2 ** attempt
BackoffDelay(attempt) == baseDelay * Pow2(attempt)

\* the catch block, up to the backoff timer
OnAttemptError(q, e) ==
  LET f == [q EXCEPT !.failures = @ + 1]
  IN  IF IsCancelled(q, e)
      THEN [f EXCEPT !.st = "resolved", !.result = Undefined, !.err = e]
      ELSE IF IsLastAttempt(q.attempt)
      THEN [f EXCEPT !.st = "rejected", !.err = e]
      ELSE [f EXCEPT !.st = "backoff",
                     !.delays = Append(@, BackoffDelay(q.attempt))]

\* the try block after Promise.race resolved with `response`
OnResponse(q, response) ==
  IF Len(response) = 0
  THEN OnAttemptError(q, Err("Error", "No candidates in response", q.attempt))
  ELSE LET part == FindInline(response[1])
       IN  IF part = Undefined
           THEN OnAttemptError(
                  q, Err("Error", "No inline data found in response", q.attempt))
           ELSE [q EXCEPT !.st = "resolved", !.resp = response,
                          !.result = PngDataUri(part)]

\* after the backoff timer: attempt++ and the loop condition
OnBackoffElapsed(q) ==
  IF q.attempt + 1 < maxRetries
  THEN StartAttempt(q, q.attempt + 1)
  ELSE [q EXCEPT !.st = "resolved", !.result = Undefined]

\* ---- generateVideoFn, llm.js:81-113
\* What generateVideos / getVideosOperation return: the operation, with
\* operation.done and operation.response?.generatedVideos?.[0]?.video?.uri
\* ("" when there is none).
Operations ==
  { [done |-> FALSE, uri |-> ""],
    [done |-> TRUE,  uri |-> "uri1"],
    [done |-> TRUE,  uri |-> ""] }

\* the while loop's test and body up to the poll timer (97-101), and the
\* download link check and fetch call after the loop (105-110)
OnOperation(q, operation) ==
  IF ~operation.done
  THEN IF q.signal = "aborted"
       THEN [q EXCEPT !.st = "rejected", !.err = Err("Error", "Aborted", 0)]
       ELSE [q EXCEPT !.st = "wait"]
  ELSE IF operation.uri = ""
       THEN [q EXCEPT !.st = "rejected",
                      !.err = Err("Error",
                        "Video generation failed, no download link found.", 0)]
       ELSE [q EXCEPT !.st = "fetch", !.resp = <<operation.uri>>]

\* URL.createObjectURL(videoBlob)
ObjectUrl(q) == <<"blob:", q.resp[1]>>

\* ---- the limiters, llm.js:115-119 (p-limit: a FIFO queue of waiting
\* calls and a count of running ones)
NewRequest(k, signal, prompt, inputFile) ==
  [NoReq EXCEPT !.kind = k, !.st = "queued", !.signal = signal,
                !.prompt = prompt, !.inputFile = inputFile]

\* the wrapped function, run by the limiter up to its first await:
\* generateImageFn enters its first attempt, generateVideoFn calls
\* ai.models.generateVideos
StartFn(q) ==
  IF q.kind = "image" THEN StartAttempt(q, 0) ELSE [q EXCEPT !.st = "submit"]

\* the newest waiting call is taken
DequeueNewest(queue) == Len(queue)

\* queue.dequeue(): the position of the call admitted next
DequeueIndex(queue) == 1

Without(queue, i) ==
  [j \in 1..(Len(queue) - 1) |-> IF j < i THEN queue[j] ELSE queue[j + 1]]

\* limiter(fn): the call is queued, and run at once when a slot is free
Generate(id, q) ==
  LET k == q.kind
      lim == limiter[k]
      queue1 == Append(lim.queue, id)
      req1 == [req EXCEPT ![id] = q]
  IN  IF lim.activeCount < Concurrency(k)
      THEN LET i == DequeueIndex(queue1)
               h == queue1[i]
           IN  /\ req' = [req1 EXCEPT ![h] = StartFn(req1[h])]
               /\ limiter' = [limiter EXCEPT ![k] =
                     [activeCount |-> lim.activeCount + 1,
                      queue |-> Without(queue1, i)]]
      ELSE /\ req' = req1
           /\ limiter' = [limiter EXCEPT ![k].queue = queue1]

\* request id's function has run to q2.  When that settles its promise the
\* limiter frees the slot and runs the next queued call in it.
Step(id, q2) ==
  LET k == q2.kind
      lim == limiter[k]
      req1 == [req EXCEPT ![id] = q2]
  IN  IF ~Settled(q2)
      THEN /\ req' = req1
           /\ UNCHANGED limiter
      ELSE IF Len(lim.queue) = 0
      THEN /\ req' = req1
           /\ limiter' = [limiter EXCEPT ![k].activeCount = @ - 1]
      ELSE LET i == DequeueIndex(lim.queue)
               h == lim.queue[i]
           IN  /\ req' = [req1 EXCEPT ![h] = StartFn(req1[h])]
               /\ limiter' = [limiter EXCEPT ![k].queue = Without(lim.queue, i)]

\* -------------------------------------------- the action layer (actions.js)
\* The mode registry (./modes): key -> prompt and flags.  One custom mode,
\* one fixed image mode, one video mode, one local mode.
modes ==
  [custom      |-> [prompt |-> "", isLocal |-> FALSE, isVideo |-> FALSE],
   renaissance |-> [prompt |-> "renaissance prompt", isLocal |-> FALSE,
                    isVideo |-> FALSE],
   animate     |-> [prompt |-> "animate prompt", isLocal |-> FALSE,
                    isVideo |-> TRUE],
   mirror      |-> [prompt |-> "", isLocal |-> TRUE, isVideo |-> FALSE]]
ModeKeys == DOMAIN modes

NoSnap == [pc |-> "none", mode |-> "", b64 |-> ""]
\* a snapPhoto call that has returned (or, "failed", thrown): its locals are gone
Returned(pc) == [NoSnap EXCEPT !.pc = pc]

PhotoIds == {photos[i].id : i \in 1..Len(photos)}

\* state.photos.filter(p => p.id !== id)
WithoutPhoto(ps, id) ==
  LET keep(p) == p.id # id IN SelectSeq(ps, keep)

\* isBusy is left as it is
MarkReadyKeepsBusy(ps, id) == ps

\* state.photos.map(photo => photo.id === id ? {...photo, isBusy: false} : photo)
MarkReady(ps, id) ==
  [i \in 1..Len(ps) |-> IF ps[i].id = id THEN [ps[i] EXCEPT !.isBusy = FALSE]
                        ELSE ps[i]]

\* the input is left in the table
RollbackInputsKept(ins, id) == ins

\* delete imageData.inputs[id] in snapPhoto's catch block
RollbackInputs(ins, id) == Del(ins, id)

\* the output is left in the table
PurgeOutputsKept(outs, id) == outs

\* delete imageData.outputs[id] in deletePhoto
PurgeOutputs(outs, id) == Del(outs, id)

\* the custom prompt text is never used
PromptForFixedOnly(mode, custom) == modes[mode].prompt

\* the prompt snapPhoto sends (actions.js:83,89)
PromptFor(mode, custom) ==
  IF modes[mode].isVideo THEN modes[mode].prompt
  ELSE IF mode = "custom" THEN custom ELSE modes[mode].prompt

\* modeInfo?.isVideo ? 'mp4' : 'png'
Extension(mode) == IF modes[mode].isVideo THEN "mp4" ELSE "png"

\* createMirroredImage's result, canvas.toDataURL('image/jpeg')
Mirrored(b64) == <<"data:image/jpeg;base64,", "mirrored", b64>>

\* snapPhoto after `await generateVideo / generateImage`, actions.js:94-117:
\* the continuation runs in the task in which the request settled
OnGenerationSettled(id, q2) ==
  IF q2.st = "resolved" /\ q2.result # Undefined
  THEN /\ outputs' = Put(outputs, id, q2.result)
       /\ photos' = MarkReady(photos, id)
       /\ downloads' = downloads \cup
            {[id |-> id, url |-> q2.result, ext |-> Extension(snap[id].mode)]}
       /\ UNCHANGED inputs
  ELSE /\ photos' = WithoutPhoto(photos, id)
       /\ inputs' = RollbackInputs(inputs, id)
       /\ UNCHANGED <<outputs, downloads>>

Continue(id, q2) ==
  IF snap[id].pc = "await" /\ Settled(q2)
  THEN /\ OnGenerationSettled(id, q2)
       /\ snap' = [snap EXCEPT ![id] = Returned("done")]
  ELSE UNCHANGED <<photos, inputs, outputs, snap, downloads>>

\* What is left of a request once snapPhoto has taken its outcome: the
\* settled promise, with nothing of generateImageFn's or generateVideoFn's
\* frame.
Consumed(q) == [NoReq EXCEPT !.kind = q.kind, !.st = q.st, !.result = q.result]

\* a step of request id's function to q2, with all it triggers
Advance(id, q2) ==
  /\ Step(id, IF snap[id].pc = "await" /\ Settled(q2) THEN Consumed(q2) ELSE q2)
  /\ Continue(id, q2)
  /\ UNCHANGED <<nextId, activeMode, customPrompt, gifVars>>

\* snapPhoto(b64), actions.js:62-92 (networked) and 62-67,120 (local), up
\* to its first await
SnapPhotoUpTo(b64, maxCalls) ==
  /\ nextId <= maxCalls
  /\ LET id == nextId
         modeInfo == modes[activeMode]
     IN  /\ nextId' = nextId + 1
         /\ inputs' = Put(inputs, id, b64)
         /\ IF activeMode = "custom" \/ ~modeInfo.isLocal
            THEN /\ photos' = <<[id |-> id, mode |-> activeMode, isBusy |-> TRUE,
                                 isVideo |-> modeInfo.isVideo]>> \o photos
                 /\ snap' = [snap EXCEPT ![id] =
                       [pc |-> "await", mode |-> activeMode, b64 |-> b64]]
                 /\ Generate(id, NewRequest(
                       IF modeInfo.isVideo THEN "video" ELSE "image", "none",
                       PromptFor(activeMode, customPrompt), b64))
            ELSE /\ snap' = [snap EXCEPT ![id] =
                       [pc |-> "mirror", mode |-> activeMode, b64 |-> b64]]
                 /\ UNCHANGED <<photos, req, limiter>>
  /\ UNCHANGED <<outputs, downloads, activeMode, customPrompt, abandoned,
                 gifVars>>

SnapPhoto(b64) == SnapPhotoUpTo(b64, MaxPhotos)

\* the local branch after `await createMirroredImage(b64)`, actions.js:120-133;
\* when the image fails to load snapPhoto rejects there
MirrorSettles(id, loaded) ==
  /\ snap[id].pc = "mirror"
  /\ IF loaded
     THEN /\ outputs' = Put(outputs, id, Mirrored(snap[id].b64))
          /\ photos' = <<[id |-> id, mode |-> snap[id].mode, isBusy |-> FALSE,
                          isVideo |-> FALSE]>> \o photos
          /\ downloads' = downloads \cup
               {[id |-> id, url |-> Mirrored(snap[id].b64), ext |-> "jpeg"]}
          /\ snap' = [snap EXCEPT ![id] = Returned("done")]
     ELSE /\ snap' = [snap EXCEPT ![id] = Returned("failed")]
          /\ UNCHANGED <<outputs, photos, downloads>>
  /\ UNCHANGED <<req, limiter, abandoned, nextId, inputs, activeMode,
                 customPrompt, gifVars>>

\* the photos list shows a delete button for every photo in the collection;
\* a photo that left the collection may still get a second click, and any
\* other id may be passed by a caller
Deletable ==
  {id \in Ids : snap[id].pc \in {"await", "done"}} \cup {GhostId}

\* deletePhoto(id), actions.js:137-144
DeletePhoto(id) ==
  /\ id \in Deletable
  /\ photos' = WithoutPhoto(photos, id)
  /\ inputs' = Del(inputs, id)
  /\ outputs' = PurgeOutputs(outputs, id)
  /\ UNCHANGED <<req, limiter, abandoned, nextId, activeMode, customPrompt,
                 snap, downloads, gifVars>>

\* setMode(mode), actions.js:146-149
SetMode(mode) ==
  /\ activeMode' = mode
  /\ UNCHANGED <<req, limiter, abandoned, nextId, photos, inputs, outputs,
                 customPrompt, snap, downloads, gifVars>>

\* setCustomPrompt(prompt), actions.js:249-252
SetCustomPrompt(prompt) ==
  /\ customPrompt' = prompt
  /\ UNCHANGED <<req, limiter, abandoned, nextId, photos, inputs, outputs,
                 activeMode, snap, downloads, gifVars>>

\* ---- the GIF build, actions.js:151-247
\* display delays of the input and of the output frame (actions.js:216,222)
inputDelay == 333
outputDelay == 833

\* a makeGif invocation: its number, the `photos` it read from the store,
\* readyPhotos, the position of the loop (photo i, awaiting the decode of
\* its input or of its output), the image source handed to
\* processImageToCanvas, and the frames written so far.  pc is "done" when
\* it resolved after setting gifUrl and "failed" when it resolved with null
\* from the catch block.
NoGif ==
  [pc |-> "none", n |-> 0, photos |-> <<>>, readyPhotos |-> <<>>, i |-> 0,
   src |-> Undefined, frames |-> <<>>]

\* busy photos are taken too
ReadyPhotosAll(ps) == ps

\* photos.filter(photo => !photo.isBusy)
ReadyPhotos(ps) == LET ready(p) == ~p.isBusy IN SelectSeq(ps, ready)

\* imageData.inputs[id] / imageData.outputs[id]: <<the entry>>, or undefined
Lookup(t, id) == IF id \in DOMAIN t THEN <<t[id]>> ELSE Undefined

\* the output frame gets the input frame's delay
FrameDelayInputOnly(which) == inputDelay

\* the delay passed to addFrameToGif (actions.js:216,222)
FrameDelay(which) == IF which = "input" THEN inputDelay ELSE outputDelay

\* gif.writeFrame(indexed, size, size, {palette, delay}): the frame written
\* for the image decoded from src, read from the `which` table for photo id
Frame(id, which, src) ==
  [id |-> id, which |-> which, src |-> src, delay |-> FrameDelay(which)]

\* URL.createObjectURL(new Blob([gif.buffer])): a fresh URL per build
GifObjectUrl(g) == <<"blob:gif", g.n>>

\* the flag is left set
FinallyKeepsFlag == TRUE

\* gifInProgress after the finally block (actions.js:237-241)
FinallyFlag == FALSE

\* the loop of makeGif from the head of iteration i (actions.js:211-233,
\* 237-241), entered with the flag at inProgress: the next input decode is
\* started, or the GIF is finished
LoopFrom(g, i, inProgress) ==
  IF i <= Len(g.readyPhotos)
  THEN /\ gif' = [g EXCEPT !.pc = "input", !.i = i,
                           !.src = Lookup(inputs, g.readyPhotos[i].id)]
       /\ UNCHANGED gifUrl
       /\ gifInProgress' = inProgress
  ELSE /\ gif' = [g EXCEPT !.pc = "done", !.i = 0, !.src = Undefined]
       /\ gifUrl' = GifObjectUrl(g)
       /\ gifInProgress' = FinallyFlag

\* makeGif(), actions.js:200-213, up to its first await.  The button that
\* calls it is disabled while gifInProgress (part_000:389-390).
MakeGif ==
  /\ ~gifInProgress
  /\ gif.n < MaxBuilds
  /\ LoopFrom([NoGif EXCEPT !.n = gif.n + 1, !.photos = photos,
                            !.readyPhotos = ReadyPhotos(photos)], 1, TRUE)
  /\ UNCHANGED <<req, limiter, abandoned, nextId, photos, inputs, outputs,
                 activeMode, customPrompt, snap, downloads>>

\* the image being decoded loads and its frame is written (actions.js:
\* 153-157, 187, 190-198), then makeGif goes on: the output decode of the
\* same photo, or the next iteration
FrameDecoded ==
  /\ gif.pc \in {"input", "output"}
  /\ gif.src # Undefined
  /\ LET id == gif.readyPhotos[gif.i].id
         g == [gif EXCEPT !.frames = Append(@, Frame(id, gif.pc, gif.src[1]))]
     IN  IF gif.pc = "input"
         THEN /\ gif' = [g EXCEPT !.pc = "output", !.src = Lookup(outputs, id)]
              /\ UNCHANGED <<gifUrl, gifInProgress>>
         ELSE LoopFrom(g, gif.i + 1, gifInProgress)
  /\ UNCHANGED <<req, limiter, abandoned, nextId, photos, inputs, outputs,
                 activeMode, customPrompt, snap, downloads>>

\* the image fails to load (img.onerror; an undefined source never loads),
\* or quantize / applyPalette / writeFrame throws once it has loaded: the
\* catch and finally blocks run (actions.js:234-241)
FrameFails(step) ==
  /\ gif.pc \in {"input", "output"}
  /\ step = "encode" => gif.src # Undefined
  /\ gif' = [gif EXCEPT !.pc = "failed", !.src = Undefined]
  /\ UNCHANGED gifUrl
  /\ gifInProgress' = FinallyFlag
  /\ UNCHANGED <<req, limiter, abandoned, nextId, photos, inputs, outputs,
                 activeMode, customPrompt, snap, downloads>>

\* hideGif(), actions.js:244-247
HideGif ==
  /\ gifUrl' = Null
  /\ UNCHANGED <<req, limiter, abandoned, nextId, photos, inputs, outputs,
                 activeMode, customPrompt, snap, downloads, gifInProgress, gif>>

\* ------------------------------------------- events of the running requests
\* generateContent resolves with a response (llm.js:49-62)
ImageCallResolves(id, response) ==
  /\ req[id].kind = "image" /\ req[id].st = "call"
  /\ Advance(id, OnResponse(req[id], response))
  /\ UNCHANGED abandoned

\* generateContent rejects (llm.js:49, 63-73)
ImageCallRejects(id, name) ==
  /\ req[id].kind = "image" /\ req[id].st = "call"
  /\ Advance(id, OnAttemptError(req[id],
                   Err(name, "service error", req[id].attempt)))
  /\ UNCHANGED abandoned

\* the timer never fires
ImageTimeoutMissing(id) ==
  /\ FALSE
  /\ UNCHANGED vars

\* the timeout timer wins the race (llm.js:23-25, 49): the attempt fails
\* and its generateContent call stays outstanding.  The outstanding calls
\* are counted up to MaxAbandoned: at that count the timer still fires and
\* the count stays, a lower bound of their number.
ImageTimeout(id) ==
  /\ req[id].kind = "image" /\ req[id].st = "call"
  /\ abandoned' = (IF abandoned < MaxAbandoned THEN abandoned + 1 ELSE abandoned)
  /\ Advance(id, OnAttemptError(req[id],
                   Err("Error", "timeout", req[id].attempt)))

\* a generateContent call whose attempt timed out completes; nobody listens
AbandonedCallCompletes ==
  /\ abandoned > 0
  /\ abandoned' = abandoned - 1
  /\ UNCHANGED <<req, limiter, nextId, photos, inputs, outputs, activeMode,
                 customPrompt, snap, downloads, gifVars>>

\* the backoff timer fires (llm.js:73-77, 21)
BackoffElapsed(id) ==
  /\ req[id].kind = "image" /\ req[id].st = "backoff"
  /\ Advance(id, OnBackoffElapsed(req[id]))
  /\ UNCHANGED abandoned

\* ai.models.generateVideos resolves with the operation (llm.js:85-101)
VideoSubmitResolves(id, operation) ==
  /\ req[id].kind = "video" /\ req[id].st = "submit"
  /\ Advance(id, OnOperation(req[id], operation))
  /\ UNCHANGED abandoned

\* the 10 s timer fires and the status is polled (llm.js:101-102)
VideoPollTimer(id) ==
  /\ req[id].kind = "video" /\ req[id].st = "wait"
  /\ Advance(id, [req[id] EXCEPT !.st = "poll"])
  /\ UNCHANGED abandoned

\* ai.operations.getVideosOperation resolves (llm.js:102, 97-110)
VideoPollResolves(id, operation) ==
  /\ req[id].kind = "video" /\ req[id].st = "poll"
  /\ Advance(id, OnOperation(req[id], operation))
  /\ UNCHANGED abandoned

\* fetch resolves with the response and response.blob() is called
\* (llm.js:110-111)
VideoFetchResolves(id) ==
  /\ req[id].kind = "video" /\ req[id].st = "fetch"
  /\ Advance(id, [req[id] EXCEPT !.st = "blob"])
  /\ UNCHANGED abandoned

\* response.blob() resolves and the object URL is returned (llm.js:111-112)
VideoBlobResolves(id) ==
  /\ req[id].kind = "video" /\ req[id].st = "blob"
  /\ Advance(id, [req[id] EXCEPT !.st = "resolved", !.result = ObjectUrl(req[id])])
  /\ UNCHANGED abandoned

\* generateVideos, getVideosOperation, fetch or blob() rejects: the error
\* leaves generateVideoFn (llm.js:85, 102, 110, 111)
VideoCallRejects(id) ==
  /\ req[id].kind = "video" /\ req[id].st \in {"submit", "poll", "fetch", "blob"}
  /\ Advance(id, [req[id] EXCEPT !.st = "rejected",
                                 !.err = Err("Error", "service error", 0)])
  /\ UNCHANGED abandoned

ServiceNext ==
  \/ \E id \in Ids, response \in Responses : ImageCallResolves(id, response)
  \/ \E id \in Ids, name \in ErrorNames : ImageCallRejects(id, name)
  \/ \E id \in Ids : ImageTimeout(id)
  \/ AbandonedCallCompletes
  \/ \E id \in Ids : BackoffElapsed(id)
  \/ \E id \in Ids, operation \in Operations : VideoSubmitResolves(id, operation)
  \/ \E id \in Ids : VideoPollTimer(id)
  \/ \E id \in Ids, operation \in Operations : VideoPollResolves(id, operation)
  \/ \E id \in Ids : VideoFetchResolves(id)
  \/ \E id \in Ids : VideoBlobResolves(id)
  \/ \E id \in Ids : VideoCallRejects(id)

\* ------------------------------------------------- a direct caller of llm.js
\* generateImage(args) / generateVideo(args), llm.js:118-119
ClientGenerate(k, signal, prompt, inputFile, maxCalls) ==
  /\ nextId <= maxCalls
  /\ nextId' = nextId + 1
  /\ Generate(nextId, NewRequest(k, signal, prompt, inputFile))
  /\ UNCHANGED <<abandoned, photos, inputs, outputs, activeMode, customPrompt,
                 snap, downloads, gifVars>>

\* the caller aborts the AbortController whose signal it passed
Abort(id) ==
  /\ req[id].signal = "clear" /\ ~Settled(req[id])
  /\ req' = [req EXCEPT ![id].signal = "aborted"]
  /\ UNCHANGED <<limiter, abandoned, nextId, photos, inputs, outputs,
                 activeMode, customPrompt, snap, downloads, gifVars>>

\* ---------------------------------------------------------- specifications
Init ==
  /\ req = [id \in Ids |-> NoReq]
  /\ limiter = [k \in Kinds |-> [activeCount |-> 0, queue |-> <<>>]]
  /\ abandoned = 0
  /\ nextId = 1
  /\ photos = <<>>
  /\ inputs = <<>>
  /\ outputs = <<>>
  /\ activeMode = "renaissance"
  /\ customPrompt = ""
  /\ snap = [id \in Ids |-> NoSnap]
  /\ downloads = {}
  /\ gifInProgress = FALSE
  /\ gifUrl = Null
  /\ gif = NoGif

\* the application: the UI's calls into actions.js, and the service
Next ==
  \/ \E b64 \in Imgs : SnapPhoto(b64)
  \/ \E id \in Ids, loaded \in BOOLEAN : MirrorSettles(id, loaded)
  \/ \E id \in Ids \cup {GhostId} : DeletePhoto(id)
  \/ \E mode \in ModeKeys : SetMode(mode)
  \/ \E prompt \in Prompts : SetCustomPrompt(prompt)
  \/ ServiceNext

Spec == Init /\ [][Next]_vars

\* the Generation Client under a caller that gives every call a signal and
\* may abort it
ClientNext ==
  \/ \E k \in Kinds, signal \in {"clear", "aborted"}, prompt \in ClientPrompts,
        inputFile \in Imgs :
        ClientGenerate(k, signal, prompt, inputFile, MaxRequests)
  \/ \E id \in Ids : Abort(id)
  \/ ServiceNext

ClientSpec == Init /\ [][ClientNext]_vars

\* the Generation Client under a caller that passes no signal, as snapPhoto
\* does, with enough calls to fill both limiters' queues
LimiterNext ==
  \/ \E k \in Kinds, prompt \in ClientPrompts, inputFile \in Imgs :
        ClientGenerate(k, "none", prompt, inputFile, MaxSubmissions)
  \/ ServiceNext

LimiterSpec == Init /\ [][LimiterNext]_vars

\* the application with its GIF button, captures taken in the mode selected
\* at start
GifNext ==
  \/ \E b64 \in Imgs : SnapPhoto(b64)
  \/ \E id \in Ids \cup {GhostId} : DeletePhoto(id)
  \/ MakeGif
  \/ FrameDecoded
  \/ \E step \in {"decode", "encode"} : FrameFails(step)
  \/ HideGif
  \/ \E id \in Ids, response \in Responses : ImageCallResolves(id, response)
  \/ \E id \in Ids, name \in ErrorNames : ImageCallRejects(id, name)
  \/ \E id \in Ids : ImageTimeout(id)
  \/ AbandonedCallCompletes
  \/ \E id \in Ids : BackoffElapsed(id)

GifSpec == Init /\ [][GifNext]_vars

\* the application capturing in the image mode selected at start, with a
\* service that may answer or stay silent
LiveNext ==
  \/ \E b64 \in Imgs : SnapPhotoUpTo(b64, MaxCaptures)
  \/ \E id \in Ids, response \in Responses : ImageCallResolves(id, response)
  \/ \E id \in Ids, name \in ErrorNames : ImageCallRejects(id, name)
  \/ \E id \in Ids : ImageTimeout(id)
  \/ AbandonedCallCompletes
  \/ \E id \in Ids : BackoffElapsed(id)

\* setTimeout callbacks run once their time has come: the timeout of a
\* pending attempt (llm.js:24) and the backoff delay (llm.js:73).  Nothing
\* is assumed of the service.
TimerFairness ==
  \A id \in Ids : WF_vars(ImageTimeout(id)) /\ WF_vars(BackoffElapsed(id))

LiveSpec == Init /\ [][LiveNext]_vars /\ TimerFairness

\* ------------------------------------------------------------------ claims
\* the requests of kind k that their limiter has started and whose promise
\* has not settled
InFlight(k) == {id \in Ids : req[id].kind = k /\ req[id].st \in InFlightSt}

InQueue(k, id) == \E i \in 1..Len(limiter[k].queue) : limiter[k].queue[i] = id

\* C1: at every instant at most 2 generateImage operations and at most 1
\* generateVideo operation are in flight, and every other submitted
\* operation that has not settled is waiting in its limiter's queue.
C1_ConcurrencyBound ==
  /\ Cardinality(InFlight("image")) <= 2
  /\ Cardinality(InFlight("video")) <= 1
  /\ \A k \in Kinds : \A id \in Ids :
       (req[id].kind = k /\ ~Settled(req[id]) /\ id \notin InFlight(k))
         => (req[id].st = "queued" /\ InQueue(k, id))

\* two image operations in flight and a third one waiting
C1_Witness ==
  /\ Cardinality(InFlight("image")) = 2
  /\ \E id \in Ids : req[id].kind = "image" /\ InQueue("image", id)

\* C2: within one limiter requests are admitted in submission order (ids
\* are given in submission order): a later request has never started while
\* an earlier one of the same limiter still waits, the queue holds the
\* waiting requests oldest first, and no request waits while a slot of its
\* limiter is free.
C2_FifoAdmission ==
  /\ \A a, b \in Ids :
       (a < b /\ req[a].kind # "none" /\ req[a].kind = req[b].kind
          /\ Started(req[b])) => Started(req[a])
  /\ \A k \in Kinds :
       /\ \A i, j \in 1..Len(limiter[k].queue) :
            i < j => limiter[k].queue[i] < limiter[k].queue[j]
       /\ (Len(limiter[k].queue) > 0
             => Cardinality(InFlight(k)) = (IF k = "image" THEN 2 ELSE 1))

\* a video request was admitted from the queue when the first one settled,
\* while a younger one still waits
C2_Witness ==
  \E a, b, c \in Ids :
    /\ a < b /\ b < c
    /\ req[a].kind = "video" /\ Settled(req[a])
    /\ req[b].kind = "video" /\ req[b].st \in InFlightSt
    /\ req[c].kind = "video" /\ req[c].st = "queued"

\* the inline image parts of the first candidate of a response
InlineImages(response) ==
  {response[1][i][2] : i \in {j \in 1..Len(response[1]) :
                                response[1][j][1] = "inlineData"}}

\* C3: a generateImage request that is not cancelled and resolves with an
\* image after k failed attempts has k < 5, made exactly k+1 attempts,
\* waited 1233 * 2^i ms between attempt i and attempt i+1 (i = 0..k-1), and
\* resolves with the PNG data URI of an image of the successful response.
C3_RetryThenSuccess ==
  \A id \in Ids :
    LET q == req[id] IN
    (q.kind = "image" /\ q.st = "resolved" /\ q.result # Undefined
       /\ q.signal # "aborted")
      => /\ q.failures < 5
         /\ q.calls = q.failures + 1
         /\ Len(q.delays) = q.failures
         /\ \A i \in 1..Len(q.delays) : q.delays[i] = 1233 * Pow2(i - 1)
         /\ Len(q.result) = 2
         /\ q.result[1] = "data:image/png;base64,"
         /\ q.result[2] \in InlineImages(q.resp)

\* a request that failed four times and succeeded on its fifth attempt
C3_Witness ==
  \E id \in Ids :
    /\ req[id].kind = "image" /\ req[id].st = "resolved"
    /\ req[id].result # Undefined /\ req[id].signal = "clear"
    /\ req[id].failures = 4
    /\ req[id].delays = <<1233, 2466, 4932, 9864>>

\* C4: no generateImage request makes more than 5 attempts; one that
\* rejects made exactly 5 attempts, all failed, waited 4 backoff delays (none
\* after the 5th attempt) and rejects with the error of the 5th attempt; and
\* a request whose 5 attempts all failed without cancellation has rejected.
C4_RetryExhaustion ==
  \A id \in Ids :
    LET q == req[id] IN
    q.kind = "image"
      => /\ q.calls <= 5
         /\ (q.st = "rejected"
               => /\ q.calls = 5 /\ q.failures = 5
                  /\ Len(q.delays) = 4
                  /\ Len(q.err) = 3 /\ q.err[3] = 4)
         /\ (q.failures >= 5 /\ q.signal # "aborted"
               /\ ~(Len(q.err) = 3 /\ q.err[1] = "AbortError"))
              => (q.st = "rejected" /\ q.failures = 5)

\* a request rejected with the timeout error of its fifth attempt
C4_Witness ==
  \E id \in Ids :
    /\ req[id].kind = "image" /\ req[id].st = "rejected"
    /\ req[id].err = Err("Error", "timeout", 4)
    /\ req[id].calls = 5

\* an attempt of request id fails in this step
AttemptFails(id) ==
  /\ req[id].kind = "image"
  /\ req'[id].failures = req[id].failures + 1

\* C10: when an attempt of generateImage fails while the signal is aborted,
\* or fails with an AbortError, the request resolves with no value in the
\* same step, with no backoff delay and no further attempt; and no request
\* ever rejects with the signal aborted or with an AbortError.
C10_CancelledResolvesEmpty ==
  [][\A id \in Ids :
       /\ (AttemptFails(id)
             /\ (req[id].signal = "aborted"
                   \/ (Len(req'[id].err) = 3 /\ req'[id].err[1] = "AbortError")))
            => /\ req'[id].st = "resolved"
               /\ req'[id].result = Undefined
               /\ req'[id].delays = req[id].delays
               /\ req'[id].calls = req[id].calls
       /\ (req'[id].kind = "image" /\ req'[id].st = "rejected")
            => (req'[id].signal # "aborted" /\ req'[id].err[1] # "AbortError")
    ]_vars

\* the fifth attempt failed with an ordinary error while the signal was
\* aborted, and the request resolved with no value
C10_Witness ==
  \E id \in Ids :
    /\ req[id].kind = "image" /\ req[id].st = "resolved"
    /\ req[id].result = Undefined
    /\ req[id].signal = "aborted"
    /\ req[id].failures = 5
    /\ Len(req[id].err) = 3 /\ req[id].err[1] = "Error"

\* the generation for capture id rejected or resolved with no value
GenerationFailed(id) ==
  \/ req[id].st = "rejected"
  \/ (req[id].st = "resolved" /\ req[id].result = Undefined)

\* C5: for every networked capture whose generation rejected or resolved
\* with no value, once snapPhoto has settled the capture is absent from the
\* photo collection and from the input table and has no output entry.
C5_FailureRollback ==
  \A id \in Ids :
    (req[id].kind # "none" /\ snap[id].pc = "done" /\ GenerationFailed(id))
      => /\ id \notin PhotoIds
         /\ id \notin DOMAIN inputs
         /\ id \notin DOMAIN outputs

\* one capture's generation rejected and one resolved with no value, both
\* rolled back, the second after the first
C5_Witness ==
  \E a, b \in Ids :
    /\ a # b
    /\ snap[a].pc = "done" /\ req[a].st = "rejected"
    /\ snap[b].pc = "done" /\ req[b].st = "resolved" /\ req[b].result = Undefined

\* the position of photo id in a collection (0 when absent)
IndexIn(ps, id) ==
  IF \E i \in 1..Len(ps) : ps[i].id = id
  THEN CHOOSE i \in 1..Len(ps) : ps[i].id = id
  ELSE 0

\* C6: a step deletePhoto(id) leaves id out of the collection and out of
\* both side tables, leaves every other photo (with its place relative to
\* the others) and every other entry of the side tables as it was, and
\* changes nothing at all when id was already absent everywhere.
C6_DeletePurges ==
  [][\A id \in Ids \cup {GhostId} :
       DeletePhoto(id)
         => /\ IndexIn(photos', id) = 0
            /\ id \notin DOMAIN inputs'
            /\ id \notin DOMAIN outputs'
            /\ Len(photos') = Len(photos) - (IF IndexIn(photos, id) = 0 THEN 0 ELSE 1)
            /\ \A x \in Ids \ {id} :
                 /\ (IndexIn(photos', x) = 0) <=> (IndexIn(photos, x) = 0)
                 /\ IndexIn(photos, x) # 0
                      => photos'[IndexIn(photos', x)] = photos[IndexIn(photos, x)]
                 /\ \A y \in Ids \ {id} :
                      (IndexIn(photos, x) # 0 /\ IndexIn(photos, y) # 0
                         /\ IndexIn(photos, x) < IndexIn(photos, y))
                        => IndexIn(photos', x) < IndexIn(photos', y)
                 /\ (x \in DOMAIN inputs') <=> (x \in DOMAIN inputs)
                 /\ x \in DOMAIN inputs => inputs'[x] = inputs[x]
                 /\ (x \in DOMAIN outputs') <=> (x \in DOMAIN outputs)
                 /\ x \in DOMAIN outputs => outputs'[x] = outputs[x]
            /\ (IndexIn(photos, id) = 0 /\ id \notin DOMAIN inputs
                  /\ id \notin DOMAIN outputs) => UNCHANGED vars
    ]_vars

\* a ready photo with an output was deleted while another photo stays: the
\* capture's download was triggered, and nothing of it is left
C6_Witness ==
  \E id \in Ids :
    /\ \E d \in downloads : d.id = id
    /\ IndexIn(photos, id) = 0
    /\ id \notin DOMAIN inputs /\ id \notin DOMAIN outputs
    /\ Len(photos) > 0

\* C7: in every state between two events, a photo of the collection that
\* is busy has no output entry and one that is not busy has an output
\* entry: the output is set in the very step that clears isBusy.
C7_BusyOutput ==
  \A i \in 1..Len(photos) :
    /\ photos[i].isBusy => photos[i].id \notin DOMAIN outputs
    /\ ~photos[i].isBusy => photos[i].id \in DOMAIN outputs

\* a photo that went from busy to ready beside one that is still busy
C7_Witness ==
  \E i, j \in 1..Len(photos) :
    /\ photos[i].isBusy
    /\ ~photos[j].isBusy /\ photos[j].mode # "mirror"
    /\ snap[photos[j].id].pc = "done"

\* the captures deletePhoto was called for: they were put in the
\* collection and have left it although their generation did not fail
DeletedIds ==
  {id \in Ids : /\ snap[id].pc \in {"await", "done"}
                /\ IndexIn(photos, id) = 0
                /\ ~GenerationFailed(id)}

\* C8: once deletePhoto(id) has been called, neither the input nor the
\* output table holds an entry for id in any later state, also after a
\* generation that was queued or in flight at deletion time succeeds.
C8_NoOrphanAfterDelete ==
  \A id \in DeletedIds :
    id \notin DOMAIN inputs /\ id \notin DOMAIN outputs

\* the states in which a request has a call to the service outstanding
\* (reading the body of the fetched response, "blob", is no new call)
CallSt == {"call", "submit", "poll", "fetch"}

\* a call to the service is issued for request id in this step
IssuesCall(id) ==
  /\ req'[id].st \in CallSt
  /\ (req[id].st # req'[id].st \/ req'[id].calls > req[id].calls)

\* C9: after deletePhoto(id) on a busy photo the request for id is
\* cancelled: no further attempt or poll is issued for it, and it is not
\* taken out of the queue to do service work.
C9_DeleteCancels ==
  [][\A id \in Ids :
       (snap[id].pc = "await" /\ IndexIn(photos, id) = 0) => ~IssuesCall(id)
    ]_vars

\* C11: when the cancellation token of a generateVideo request is signaled
\* while the job is polled, polling stops with no result and no error: a
\* request that leaves the polling loop because its signal is aborted is
\* resolved with no value, never rejected.
C11_VideoCancelResolvesEmpty ==
  \A id \in Ids :
    (req[id].kind = "video" /\ req[id].signal = "aborted"
       /\ Settled(req[id]) /\ req[id].err = Err("Error", "Aborted", 0))
      => (req[id].st = "resolved" /\ req[id].result = Undefined)

\* a makeGif invocation that is suspended at a decode
Building(g) == g.pc \in {"input", "output"}

\* C12: gifInProgress is true while a makeGif invocation is suspended and
\* false once it has settled, on the success path and on the failure of any
\* decode or encode step; makeGif settles by resolving, never by rejecting;
\* and the step in which a build fails leaves gifUrl as it was.
C12_GifInProgress ==
  [][/\ Building(gif') => gifInProgress'
     /\ gif'.pc \in {"done", "failed"} => ~gifInProgress'
     /\ gif'.pc \in {"none", "input", "output", "done", "failed"}
     /\ (gif'.pc = "failed" /\ gif.pc # "failed") => gifUrl' = gifUrl
    ]_vars

\* the second build failed after it had written a frame, while the URL of
\* the first build was still set
C12_Witness ==
  /\ gif.pc = "failed" /\ gif.n = 2 /\ Len(gif.frames) > 0
  /\ ~gifInProgress
  /\ gifUrl # Null

\* C13: a makeGif that succeeded over a collection whose ready photos were
\* P1..Pn, in collection order, has written exactly 2n frames, P1.input,
\* P1.output, ..., Pn.input, Pn.output, every input frame with delay 333
\* and every output frame with delay 833.
C13_FrameOrder ==
  gif.pc = "done" =>
    LET isReady(p) == ~p.isBusy
        P == SelectSeq(gif.photos, isReady)
    IN  /\ Len(gif.frames) = 2 * Len(P)
        /\ \A k \in 1..Len(P) :
             LET fin == gif.frames[2 * k - 1]
                 fout == gif.frames[2 * k]
             IN  /\ fin.id = P[k].id /\ fin.which = "input" /\ fin.delay = 333
                 /\ fout.id = P[k].id /\ fout.which = "output" /\ fout.delay = 833
                 /\ P[k].id \in DOMAIN inputs => fin.src = inputs[P[k].id]
                 /\ P[k].id \in DOMAIN outputs => fout.src = outputs[P[k].id]

\* a build over two ready photos succeeded with four frames
C13_Witness ==
  /\ gif.pc = "done" /\ Len(gif.frames) = 4
  /\ gif.frames[1].id # gif.frames[3].id

\* C14: every frame of a build comes from a photo that was in the
\* collection and not busy when makeGif was invoked; a photo that was busy
\* then has no frame, whatever became of it since.
C14_BusyExcluded ==
  \A k \in 1..Len(gif.frames) :
    /\ \E j \in 1..Len(gif.photos) : gif.photos[j].id = gif.frames[k].id
    /\ \A j \in 1..Len(gif.photos) :
         gif.photos[j].id = gif.frames[k].id => ~gif.photos[j].isBusy

\* a photo that was busy when makeGif was invoked became ready while the
\* build was running, and the build finished with the other photo's frames
C14_Witness ==
  /\ gif.pc = "done" /\ Len(gif.frames) = 2
  /\ \E j \in 1..Len(gif.photos) : \E i \in 1..Len(photos) :
       /\ gif.photos[j].isBusy
       /\ photos[i].id = gif.photos[j].id /\ ~photos[i].isBusy

\* C20: the only GIF result ever exposed is that of the latest makeGif: from
\* the start of a build the URL of an earlier build is gone, a failed build
\* leaves gifUrl without a result, and after hideGif gifUrl is null.
C20_GifDiscarded ==
  /\ gifUrl # Null => (gif.pc = "done" /\ gifUrl = <<"blob:gif", gif.n>>)
  /\ gif.pc = "failed" => gifUrl = Null

\* C15: a capture takes the selection in force when snapPhoto is called: the
\* busy photo put in front has mode = activeMode and the request carries the
\* custom prompt text in custom mode and the mode's own prompt otherwise,
\* with the captured image; a step that changes the selection changes
\* nothing else; no later step changes a photo's mode or the prompt and
\* image of a request still queued or in flight; and the step in which the
\* generation of a photo of the collection succeeds leaves that photo ready
\* with the returned artifact as its output.
C15_CaptureSelection ==
  [][/\ (nextId' = nextId + 1
           /\ (activeMode = "custom" \/ ~modes[activeMode].isLocal))
          => /\ Len(photos') = Len(photos) + 1
             /\ photos'[1].id = nextId
             /\ photos'[1].mode = activeMode
             /\ photos'[1].isBusy
             /\ \A i \in 1..Len(photos) : photos'[i + 1] = photos[i]
             /\ req'[nextId].prompt =
                  (IF activeMode = "custom" THEN customPrompt
                   ELSE modes[activeMode].prompt)
             /\ req'[nextId].inputFile = inputs'[nextId]
     /\ (activeMode' # activeMode \/ customPrompt' # customPrompt)
          => UNCHANGED <<photos, inputs, outputs, req, limiter, snap, downloads>>
     /\ \A id \in Ids :
          (req[id].kind # "none" /\ ~Settled(req'[id]))
            => /\ req'[id].prompt = req[id].prompt
               /\ req'[id].inputFile = req[id].inputFile
     /\ \A i \in 1..Len(photos) : \A j \in 1..Len(photos') :
          photos'[j].id = photos[i].id => photos'[j].mode = photos[i].mode
     /\ \A id \in Ids :
          (~Settled(req[id]) /\ req'[id].st = "resolved"
             /\ req'[id].result # Undefined /\ IndexIn(photos, id) # 0)
            => /\ IndexIn(photos', id) = IndexIn(photos, id)
               /\ ~photos'[IndexIn(photos', id)].isBusy
               /\ outputs'[id] = req'[id].result
    ]_vars

\* a capture taken in custom mode with a prompt text is still in flight
\* after the selection went back to another mode and an empty text
C15_Witness ==
  \E id \in Ids :
    /\ IndexIn(photos, id) # 0 /\ photos[IndexIn(photos, id)].mode = "custom"
    /\ photos[IndexIn(photos, id)].isBusy
    /\ req[id].st \in InFlightSt /\ req[id].prompt = "turn into a painting"
    /\ activeMode = "animate" /\ customPrompt = ""

\* C16: the collection is ordered newest first by capture time (ids are
\* given in the order of the snapPhoto calls): a photo that precedes another
\* one was captured after it.
C16_NewestFirst ==
  \A i, j \in 1..Len(photos) : i < j => photos[i].id > photos[j].id

\* the photo of capture id is in the collection and busy
BusyPhoto(id) ==
  IndexIn(photos, id) # 0 /\ photos[IndexIn(photos, id)].isBusy

\* C17: with fair timers, whatever the service does, every generateImage
\* request that waits in the limiter's queue is eventually started, every
\* unsettled one eventually settles, and every busy photo eventually is
\* ready or out of the collection.
C17_ImageSettles ==
  \A id \in Ids :
    /\ (req[id].kind = "image" /\ req[id].st = "queued") ~> Started(req[id])
    /\ (req[id].kind = "image" /\ ~Settled(req[id])) ~> Settled(req[id])
    /\ BusyPhoto(id) ~> ~BusyPhoto(id)

\* a capture whose request had to wait behind two others was rejected after
\* its five attempts and its photo removed
C17_Witness ==
  \E id \in Ids :
    /\ id > 2
    /\ req[id].kind = "image" /\ req[id].st = "rejected"
    /\ snap[id].pc = "done" /\ IndexIn(photos, id) = 0
    /\ \A other \in Ids \ {id} : req[other].kind = "image"

\* the generateContent calls whose result an attempt is waiting for
AwaitedImageCalls == {id \in Ids : req[id].kind = "image" /\ req[id].st = "call"}

\* C18 as stated: the image calls issued and not yet completed, those
\* abandoned by the timeout included, are at most 2 at every instant.
C18_OutstandingCalls ==
  Cardinality(AwaitedImageCalls) + abandoned <= 2

\* C18 as amended: at every instant at most 2 image calls whose result an
\* attempt still awaits are outstanding; the calls abandoned by the timeout
\* are outstanding beside them.
C18_AwaitedCalls ==
  Cardinality(AwaitedImageCalls) <= 2

\* two awaited calls beside a call that the timeout abandoned, while a
\* third request waits
C18_Witness ==
  /\ Cardinality(AwaitedImageCalls) = 2
  /\ abandoned > 0
  /\ Len(limiter["image"].queue) > 0

\* a new attempt of generateImage or a status poll of generateVideo is
\* issued for request id in this step
IssuesAttemptOrPoll(id) ==
  /\ req'[id].st \in {"call", "poll"}
  /\ (req[id].st # req'[id].st \/ req'[id].calls > req[id].calls)

\* C19: once the signal of a request is aborted, no step issues a call to
\* the service for it: no new attempt of generateImage, no status poll of
\* generateVideo, also when the step is the end of a backoff or poll wait.
C19_NoCallAfterSignal ==
  [][\A id \in Ids :
       req[id].signal = "aborted" => ~IssuesAttemptOrPoll(id)]_vars

\* C21: a download is triggered for a capture only while its photo is in
\* the collection: every step that triggers a download does so for a photo
\* that the step leaves in the collection, so none is triggered for a photo
\* that was deleted before its generation succeeded.
C21_DownloadOnlyInCollection ==
  [][\A d \in downloads' \ downloads : IndexIn(photos', d.id) # 0]_vars

====
